---------------------------- MODULE Spec2Model ----------------------------
(***************************************************************************)
(* DAILY-DIESEL: the ledger maintenance engine (src/main.py,               *)
(* src/main_daily.py), the heartbeat store and its reader (src/gui.py).    *)
(*                                                                         *)
(* Encodings                                                               *)
(*  - A calendar date is its day number counted from Wednesday            *)
(*    2024-01-03 (day 0; Friday 2024-01-05 is day 2).  An ISO date string  *)
(*    "YYYY-MM-DD" orders as its day number.  All dates lie in 2024.       *)
(*  - Money is counted in cents (80.0 USD is 8000).  A ratio minus one     *)
(*    (spread_pct, pct_change) is kept in units of 1/10000 (0.3125 is      *)
(*    3125), rounded down.                                                 *)
(*  - A cell that may be empty (pd.NA, NaN, "") is a sequence of length    *)
(*    0 or 1: << >> is the empty cell, <<v>> holds v.                      *)
(***************************************************************************)
EXTENDS Integers, Sequences, FiniteSets, TLC

VARIABLES
    today,                        \* the calendar date of the wall clock
    EMAIL_DAY,                    \* main.py:16, main_daily.py:15
    USE_EXECUTION_DAY_FOR_EMAIL,  \* main_daily.py:17
    sheet,                        \* the rows persisted at SHEET_PATH
    sheetfile,                    \* SHEET_PATH: absent, nodir, a table, or malformed
    hbfile,                       \* the file at HEARTBEAT_PATH
    hbw,                          \* the frame of _write_heartbeat
    pc,                           \* the position of the run-cycle
    cyc,                          \* the locals of the run-cycle
    gui,                          \* the status shown by App.refresh_status
    runs                          \* run-cycles started (a range backfill counts once per date)

vars == <<today, EMAIL_DAY, USE_EXECUTION_DAY_FOR_EMAIL, sheet, sheetfile, hbfile,
          hbw, pc, cyc, gui, runs>>

---------------------------------------------------------------------------
(* Bounds *)

MaxDay == 2
MaxRuns == 2

Days == 0..MaxDay

BrentValues == {0, 8000}
DieselGalValues == {250, 300}
ObsLags == {0, 1}
EmailDayValues == {"THU", "SEX"}
ErrorTexts == {"", "x", "y"}

---------------------------------------------------------------------------
(* Empty-able cells *)

NA == << >>
Some(v) == <<v>>
IsNA(c) == Len(c) = 0
Val(c) == c[1]

\* Python's order on two ISO date strings, either of which may be "".
StrLess(a, b) ==
    IF IsNA(a) THEN ~IsNA(b)
    ELSE IF IsNA(b) THEN FALSE
    ELSE Val(a) < Val(b)

---------------------------------------------------------------------------
(* Calendar *)

\* pd.Timestamp(date_iso).weekday(): Monday = 0 ... Sunday = 6
weekday(d) == (d + 2) % 7

\* dt.isocalendar().week for a date of 2024
isoweek(d) == ((d + 2) \div 7) + 1

GAL_TO_BBL == 42

_DAY_MAP ==
    [MON |-> 0, TUE |-> 1, WED |-> 2, THU |-> 3, FRI |-> 4, SAT |-> 5, SUN |-> 6]

\* _DAY_MAP.get(EMAIL_DAY, 4)
\* _DAY_MAP.get(EMAIL_DAY, 0): Monday as the default
DayTargetMonday(email_day) ==
    IF email_day \in DOMAIN _DAY_MAP THEN _DAY_MAP[email_day] ELSE 0

\* target = _DAY_MAP.get(EMAIL_DAY, 4)
DayTarget(email_day) ==
    IF email_day \in DOMAIN _DAY_MAP THEN _DAY_MAP[email_day] ELSE 4

_is_email_day(date_iso, email_day) == weekday(date_iso) = DayTarget(email_day)

_should_send_email(ref_date_iso, now_day, email_day, use_exec) ==
    IF use_exec
    THEN _is_email_day(now_day, email_day)
    ELSE _is_email_day(ref_date_iso, email_day)

---------------------------------------------------------------------------
(* The ledger: rows, derived metrics *)

\* float(a) / float(b), the 1.0 not subtracted
RatioGross(a, b) == (a * 10000) \div b

\* float(a) / float(b) - 1.0, for b # 0, in units of 1/10000
Ratio(a, b) == ((a * 10000) \div b) - 10000

\* float(diesel_bbl) / float(brent_bbl) raises ZeroDivisionError
DivRaises(brent_bbl) == brent_bbl = 0

\* the row dict of update_sheet (new_row) and of _append_row (row)
NewRow(ref_date, brent_bbl, diesel_bbl, email_flag) ==
    [Data |-> ref_date,
     SemanaAnual |-> NA,
     PetroleoBarril |-> brent_bbl,
     DieselBarril |-> diesel_bbl,
     VariacaoPetroleo |-> NA,
     VariacaoDiesel |-> NA,
     MM7Petroleo |-> NA,
     MM30Petroleo |-> NA,
     MM7Diesel |-> NA,
     MM30Diesel |-> NA,
     EmailFlag |-> email_flag,
     SpreadAbs |-> IF email_flag = 1 THEN Some(diesel_bbl - brent_bbl) ELSE NA,
     SpreadPct |-> IF email_flag = 1 THEN Some(Ratio(diesel_bbl, brent_bbl)) ELSE NA]

\* Results of an operation that may raise: the table it holds (or has
\* persisted) and, for the merge operations, the value returned.
Raised(df, msg) == [raised |-> TRUE, err |-> msg, df |-> df, ret |-> NA]
Returned(df, ret) == [raised |-> FALSE, err |-> "", df |-> df, ret |-> ret]

\* a table of the new row alone in place of pd.concat([df, row])
_append_row_alone(df, ref_date, brent_bbl, diesel_bbl, email_flag) ==
    IF email_flag = 1 /\ DivRaises(brent_bbl)
    THEN Raised(df, "float division by zero")
    ELSE Returned(<<NewRow(ref_date, brent_bbl, diesel_bbl, email_flag)>>, NA)

\* main_daily.py _append_row
_append_row(df, ref_date, brent_bbl, diesel_bbl, email_flag) ==
    IF email_flag = 1 /\ DivRaises(brent_bbl)
    THEN Raised(df, "float division by zero")
    ELSE Returned(Append(df, NewRow(ref_date, brent_bbl, diesel_bbl, email_flag)), NA)

PosInf == 999999999

\* Series.pct_change() at position i (1-based) of the price column
pct_change(prices, i) ==
    IF i = 1 THEN NA
    ELSE IF prices[i - 1] = 0
         THEN (IF prices[i] = 0 THEN NA ELSE Some(PosInf))
         ELSE Some(Ratio(prices[i], prices[i - 1]))

RECURSIVE SumRange(_, _, _)
SumRange(prices, lo, hi) ==
    IF lo > hi THEN 0 ELSE prices[lo] + SumRange(prices, lo + 1, hi)

\* the mean of the rows there are, as under min_periods=1
rolling_mean_partial(prices, k, i) ==
    IF i < k THEN Some(SumRange(prices, 1, i) \div i)
    ELSE Some(SumRange(prices, i - k + 1, i) \div k)

\* Series.rolling(k, min_periods=k).mean() at position i (1-based)
rolling_mean(prices, k, i) ==
    IF i < k THEN NA ELSE Some(SumRange(prices, i - k + 1, i) \div k)

_compute_metrics(df) ==
    LET brent == [i \in 1..Len(df) |-> df[i].PetroleoBarril]
        diesel == [i \in 1..Len(df) |-> df[i].DieselBarril]
    IN  [i \in 1..Len(df) |->
            [df[i] EXCEPT
                !.SemanaAnual = Some(isoweek(df[i].Data)),
                !.VariacaoPetroleo = pct_change(brent, i),
                !.VariacaoDiesel = pct_change(diesel, i),
                !.MM7Petroleo = rolling_mean(brent, 7, i),
                !.MM30Petroleo = rolling_mean(brent, 30, i),
                !.MM7Diesel = rolling_mean(diesel, 7, i),
                !.MM30Diesel = rolling_mean(diesel, 30, i)]]

\* set(pd.to_datetime(df["Data"]).dt.strftime("%Y-%m-%d"))
existing_dates(df) == {df[i].Data : i \in 1..Len(df)}

\* update_sheet lines 221-222: "Data" in df.columns and not df.empty and
\* any(... == ref_date), without its duplicate check
date_exists_never(df, ref_date) == FALSE

\* update_sheet lines 221-222: "Data" in df.columns and not df.empty and
\* any(pd.to_datetime(df["Data"]).dt.strftime("%Y-%m-%d") == ref_date)
date_exists(df, ref_date) == Len(df) > 0 /\ ref_date \in existing_dates(df)

\* df.index[... == ref_date][-1]
LastIndexOf(df, ref_date) ==
    CHOOSE i \in 1..Len(df) :
        /\ df[i].Data = ref_date
        /\ \A j \in 1..Len(df) : df[j].Data = ref_date => j <= i

MaxOf(S) == CHOOSE x \in S : \A y \in S : y <= x

max2(a, b) == IF a >= b THEN a ELSE b

\* the two spread cells set, the flag cell forgotten
SetSpreadOnly(df, i, brent_bbl, diesel_bbl) ==
    [df EXCEPT ![i] = [@ EXCEPT
        !.SpreadAbs = Some(diesel_bbl - brent_bbl),
        !.SpreadPct = Some(Ratio(diesel_bbl, brent_bbl))]]

\* df.at[i, "E-mail Flag"] = 1 and the two spread cells
SetSpread(df, i, brent_bbl, diesel_bbl) ==
    [df EXCEPT ![i] = [@ EXCEPT
        !.EmailFlag = 1,
        !.SpreadAbs = Some(diesel_bbl - brent_bbl),
        !.SpreadPct = Some(Ratio(diesel_bbl, brent_bbl))]]

\* try: df = pd.read_excel(SHEET_PATH)
\* except FileNotFoundError: df = pd.DataFrame(columns=COLUMNS)
read_excel(file, df) ==
    IF file = "malformed" THEN Raised(df, "malformed sheet")
    ELSE IF file \in {"absent", "nodir"} THEN Returned(<< >>, NA)
    ELSE Returned(df, NA)

\* df.to_excel(SHEET_PATH, index=False): r is the outcome when the file
\* is written, df the table SHEET_PATH keeps when it is not; the writer
\* raises OSError when the directory of SHEET_PATH does not exist
to_excel(file, df, r) ==
    IF file = "nodir"
    THEN Raised(df, "cannot save file into a non-existent directory")
    ELSE r

\* _ensure_parent_dir(SHEET_PATH): the directory is made when missing
_ensure_parent_dir(file) == IF file = "nodir" THEN "absent" ELSE file

\* a merge function from its first statement: the read, then the rest of
\* the body on the table read
ReadThen(t, r) == IF t.raised THEN t ELSE r

---------------------------------------------------------------------------
(* main.py: update_sheet.  file is the state of SHEET_PATH, df the table   *)
(* read from it; the result's df is the table at SHEET_PATH when the call *)
(* ends.  main.py never makes the directory of SHEET_PATH.                *)

\* update_sheet writing the table without the call of _compute_metrics
update_sheet_stale(file, df, brent_date, brent_bbl, diesel_date, diesel_bbl, email_day) ==
    LET ref_date == max2(brent_date, diesel_date)
    IN  IF date_exists(df, ref_date)
        THEN IF _is_email_day(ref_date, email_day)
             THEN IF DivRaises(brent_bbl)
                  THEN Raised(df, "float division by zero")
                  ELSE to_excel(file, df,
                         Returned(SetSpread(df, LastIndexOf(df, ref_date), brent_bbl, diesel_bbl),
                                  Some(ref_date)))
             ELSE Returned(df, Some(ref_date))
        ELSE LET email_flag == IF _is_email_day(ref_date, email_day) THEN 1 ELSE 0
             IN  IF email_flag = 1 /\ DivRaises(brent_bbl)
                 THEN Raised(df, "float division by zero")
                 ELSE to_excel(file, df,
                        Returned(Append(df, NewRow(ref_date, brent_bbl, diesel_bbl, email_flag)),
                                 Some(ref_date)))

\* lines 206-265 after the read; to_excel at lines 231 and 262
update_sheet(file, df, brent_date, brent_bbl, diesel_date, diesel_bbl, email_day) ==
    LET ref_date == max2(brent_date, diesel_date)
    IN  IF date_exists(df, ref_date)
        THEN IF _is_email_day(ref_date, email_day)
             THEN IF DivRaises(brent_bbl)
                  THEN Raised(df, "float division by zero")
                  ELSE to_excel(file, df,
                         Returned(
                           _compute_metrics(
                             SetSpread(df, LastIndexOf(df, ref_date), brent_bbl, diesel_bbl)),
                           Some(ref_date)))
             ELSE Returned(df, Some(ref_date))
        ELSE LET email_flag == IF _is_email_day(ref_date, email_day) THEN 1 ELSE 0
             IN  IF email_flag = 1 /\ DivRaises(brent_bbl)
                 THEN Raised(df, "float division by zero")
                 ELSE to_excel(file, df,
                        Returned(
                          _compute_metrics(
                            Append(df, NewRow(ref_date, brent_bbl, diesel_bbl, email_flag))),
                          Some(ref_date)))

\* update_sheet reaches df.to_excel: on every path but the one of lines
\* 234-235, where the date has a row and is not an e-mail day
update_sheet_never_writes(df, brent_date, diesel_date, email_day) == FALSE

update_sheet_writes(df, brent_date, diesel_date, email_day) ==
    LET ref_date == max2(brent_date, diesel_date)
    IN  ~date_exists(df, ref_date) \/ _is_email_day(ref_date, email_day)

---------------------------------------------------------------------------
(* main_daily.py: update_sheet_with_backfill *)

\* the days date.today() shows at the calls of _should_send_email made
\* by one call of update_sheet_with_backfill that read today_iso at line
\* 205: clock[1] at the call of step 1 (line 212 or 216), clock[1 + k] at
\* the call of the k-th iteration of the loop (line 235); the last entry
\* is also the day when the function ends.  Midnight may pass between
\* any two readings, the clock never goes back.
ClockReadings(today_iso) ==
    {clock \in [1..(MaxDay + 1) -> today_iso..MaxDay] :
        \A i \in 1..MaxDay : clock[i] <= clock[i + 1]}

\* the while loop of step 2: one row per day from cur to today_iso, the
\* flag of each from the _should_send_email call whose reading is clock[i]
RECURSIVE BackfillLoop(_, _, _, _, _, _, _, _, _)
BackfillLoop(df, cur, today_iso, clock, i, last_brent, last_diesel, email_day, use_exec) ==
    IF cur > today_iso
    THEN Returned(df, NA)
    ELSE LET email_flag ==
                 IF _should_send_email(cur, clock[i], email_day, use_exec) THEN 1 ELSE 0
             r == _append_row(df, cur, last_brent, last_diesel, email_flag)
         IN  IF r.raised
             THEN r
             ELSE BackfillLoop(r.df, cur + 1, today_iso, clock, i + 1, last_brent,
                               last_diesel, email_day, use_exec)

\* step 1: insert or update the row of ref_date; now_day is the day
\* date.today() shows inside _should_send_email(ref_date)
MergeRefDate(df, ref_date, now_day, brent_bbl, diesel_bbl, email_day, use_exec) ==
    IF ref_date \notin (IF Len(df) > 0 THEN existing_dates(df) ELSE {})
    THEN _append_row(df, ref_date, brent_bbl, diesel_bbl,
                     IF _should_send_email(ref_date, now_day, email_day, use_exec)
                     THEN 1 ELSE 0)
    ELSE IF _should_send_email(ref_date, now_day, email_day, use_exec)
         THEN IF DivRaises(brent_bbl)
              THEN Raised(df, "float division by zero")
              ELSE Returned(SetSpread(df, LastIndexOf(df, ref_date), brent_bbl, diesel_bbl), NA)
         ELSE Returned(df, NA)

\* step 2 starting after ref_date whatever the table holds
BackfillFromRef(df, ref_date) == ref_date

\* step 2: the date the backfill starts after
BackfillFrom(df, ref_date) ==
    IF Len(df) = 0 THEN ref_date ELSE MaxOf(existing_dates(df))

\* the merge with the table written to SHEET_PATH after every appended row
update_sheet_with_backfill_eager(df, latest_brent_date, latest_brent_bbl, latest_diesel_date, latest_diesel_bbl, today_iso, clock, email_day, use_exec) ==
    LET ref_date == max2(latest_brent_date, latest_diesel_date)
        r1 == MergeRefDate(df, ref_date, clock[1], latest_brent_bbl,
                           latest_diesel_bbl, email_day, use_exec)
    IN  IF r1.raised
        THEN Raised(r1.df, r1.err)
        ELSE LET r2 == BackfillLoop(r1.df, BackfillFrom(r1.df, ref_date) + 1, today_iso,
                                    clock, 2, latest_brent_bbl, latest_diesel_bbl,
                                    email_day, use_exec)
             IN  IF r2.raised
                 THEN Raised(r2.df, r2.err)
                 ELSE Returned(_compute_metrics(r2.df), Some(today_iso))

\* lines 190-245 after the read; today_iso is the clock read at line 205
\* (the bound of the loop and the value returned), clock the readings of
\* the _should_send_email calls; to_excel (line 242) is reached only when
\* nothing raised, and finds the directory that line 202 has ensured
update_sheet_with_backfill(df, latest_brent_date, latest_brent_bbl, latest_diesel_date, latest_diesel_bbl, today_iso, clock, email_day, use_exec) ==
    LET ref_date == max2(latest_brent_date, latest_diesel_date)
        r1 == MergeRefDate(df, ref_date, clock[1], latest_brent_bbl,
                           latest_diesel_bbl, email_day, use_exec)
    IN  IF r1.raised
        THEN Raised(df, r1.err)
        ELSE LET r2 == BackfillLoop(r1.df, BackfillFrom(r1.df, ref_date) + 1, today_iso,
                                    clock, 2, latest_brent_bbl, latest_diesel_bbl,
                                    email_day, use_exec)
             IN  IF r2.raised
                 THEN Raised(df, r2.err)
                 ELSE Returned(_compute_metrics(r2.df), Some(today_iso))

---------------------------------------------------------------------------
(* Heartbeat: main.py and main_daily.py _write_heartbeat, gui.py readers *)

\* an error_msg argument: None, a str, or an exception object (whose
\* truth value is True whatever its text)
NoMsg == [kind |-> "none", text |-> ""]
StrMsg(t) == [kind |-> "str", text |-> t]
ExcMsg(t) == [kind |-> "exc", text |-> t]

Truthy(m) == m.kind = "exc" \/ (m.kind = "str" /\ m.text # "")

EmptyDoc == [k \in {} |-> NA]

\* hb.get(key, default)
get(hb, key, default) == IF key \in DOMAIN hb THEN hb[key] ELSE default

\* hb[key] = value
put(hb, key, value) ==
    [k \in (DOMAIN hb) \cup {key} |-> IF k = key THEN value ELSE hb[k]]

NoFile == [exists |-> FALSE, complete |-> FALSE, doc |-> EmptyDoc]
Truncated == [exists |-> TRUE, complete |-> FALSE, doc |-> EmptyDoc]
Written(hb) == [exists |-> TRUE, complete |-> TRUE, doc |-> hb]

\* gui.py read_heartbeat, and the read at the start of _write_heartbeat:
\* a missing file or a document json.load rejects reads as {}
read_heartbeat(file) ==
    IF file.exists /\ file.complete THEN file.doc ELSE EmptyDoc

\* the dict dumped when the record read is dropped and built anew
heartbeat_doc_fresh(hb, success, error_msg, now_local, today_str) ==
    LET hb1 == put(EmptyDoc, "last_run", Some(now_local))
    IN  IF success
        THEN put(put(put(hb1, "last_success", Some(today_str)),
                     "last_error", NA),
                 "last_error_msg", "")
        ELSE put(put(hb1, "last_error", Some(today_str)),
                 "last_error_msg",
                 IF Truthy(error_msg) THEN error_msg.text ELSE "Erro nao especificado")

\* the dict dumped when a success leaves the error fields as they were
heartbeat_doc_keep_error(hb, success, error_msg, now_local, today_str) ==
    LET hb1 == put(hb, "last_run", Some(now_local))
    IN  IF success
        THEN put(hb1, "last_success", Some(today_str))
        ELSE put(put(hb1, "last_error", Some(today_str)),
                 "last_error_msg",
                 IF Truthy(error_msg) THEN error_msg.text ELSE "Erro nao especificado")

\* the dict _write_heartbeat dumps, from the dict hb it has read
heartbeat_doc(hb, success, error_msg, now_local, today_str) ==
    LET hb1 == put(hb, "last_run", Some(now_local))
    IN  IF success
        THEN put(put(put(hb1, "last_success", Some(today_str)),
                     "last_error", NA),
                 "last_error_msg", "")
        ELSE put(put(hb1, "last_error", Some(today_str)),
                 "last_error_msg",
                 IF Truthy(error_msg) THEN error_msg.text ELSE "Erro nao especificado")

\* the status with a success of the same day winning over the error
status_from_heartbeat_lenient(hb) ==
    LET last_success == get(hb, "last_success", NA)
        last_error == get(hb, "last_error", NA)
    IN  IF ~IsNA(last_success) /\ (IsNA(last_error) \/ ~StrLess(last_success, last_error))
        THEN "Em Operacao"
        ELSE IF ~IsNA(last_error) /\ (IsNA(last_success) \/ StrLess(last_success, last_error))
             THEN "Fora de Operacao"
             ELSE "Indeterminado"

\* gui.py status_from_heartbeat, without the colour
status_from_heartbeat(hb) ==
    LET last_success == get(hb, "last_success", NA)
        last_error == get(hb, "last_error", NA)
    IN  IF ~IsNA(last_success) /\ (IsNA(last_error) \/ StrLess(last_error, last_success))
        THEN "Em Operacao"
        ELSE IF ~IsNA(last_error) /\ (IsNA(last_success) \/ ~StrLess(last_error, last_success))
             THEN "Fora de Operacao"
             ELSE "Indeterminado"

\* format_error_list
format_error_list(hb) ==
    LET last_error == get(hb, "last_error", NA)
        last_error_msg == get(hb, "last_error_msg", "")
    IN  IF ~IsNA(last_error) THEN <<[date |-> Val(last_error), msg |-> last_error_msg]>>
        ELSE << >>

---------------------------------------------------------------------------
(* State *)

IdleFrame == [state |-> "idle", success |-> FALSE, error_msg |-> NoMsg,
              now_local |-> NA, today_str |-> NA,
              old |-> EmptyDoc, new |-> EmptyDoc]

NoCycle ==
    [mode |-> "none", send_email_if_day |-> FALSE, queue |-> << >>,
     processed |-> << >>, ref_date |-> NA,
     hb_success |-> FALSE, hb_msg |-> NoMsg, reraise |-> FALSE,
     fetch_failed |-> FALSE, merge_failed |-> FALSE, notify_failed |-> FALSE,
     hb_writes |-> 0, result |-> "none", steps |-> << >>, range |-> << >>]

Init ==
    /\ today = 0
    /\ EMAIL_DAY \in EmailDayValues
    /\ USE_EXECUTION_DAY_FOR_EMAIL \in BOOLEAN
    /\ sheet = << >>
    /\ sheetfile = "absent"
    /\ hbfile = NoFile
    /\ hbw = IdleFrame
    /\ pc = "idle"
    /\ cyc = NoCycle
    /\ gui = "unset"
    /\ runs = 0

config == <<EMAIL_DAY, USE_EXECUTION_DAY_FOR_EMAIL>>

\* the dates a fetched observation may carry on the day of the run
ObsDates == {d \in Days : today - d \in ObsLags}

Obs(b_date, b_val, d_date, d_val) ==
    [b_date |-> b_date, b_val |-> b_val, d_date |-> d_date, d_val |-> d_val]

\* the wall clock passes midnight, between run-cycles or between two
\* steps of one
Tick ==
    /\ today < MaxDay
    /\ today' = today + 1
    /\ UNCHANGED <<config, sheet, sheetfile, hbfile, hbw, pc, cyc, gui, runs>>

---------------------------------------------------------------------------
(* Collection *)

\* fetch_diesel_daily_from_fred, fetch_diesel_range: USD/gal to USD/bbl
diesel_bbl_of(d_gal) == d_gal * GAL_TO_BBL

RECURSIVE sorted(_)
sorted(S) ==
    IF S = {} THEN << >>
    ELSE LET m == CHOOSE x \in S : \A y \in S : x <= y
         IN  <<m>> \o sorted(S \ {m})

\* the except branch of a run-cycle: heartbeat failure, then raise or not
Failing(c, msg, reraise) ==
    [c EXCEPT !.hb_success = FALSE, !.hb_msg = ExcMsg(msg), !.reraise = reraise]

Started(mode, send) ==
    [NoCycle EXCEPT !.mode = mode, !.send_email_if_day = send, !.result = "running"]

\* the outcome of a merge call for the run-cycle c: on an exception the
\* except branch (nothing was persisted, SHEET_PATH is left as file),
\* else on to the notification
AfterMerge(c, r, reraise, wrote, file) ==
    IF r.raised
    THEN /\ sheet' = r.df
         /\ sheetfile' = file
         /\ cyc' = [Failing(c, r.err, reraise) EXCEPT !.merge_failed = TRUE,
                                                     !.steps = Append(@, "merge")]
         /\ pc' = "heartbeat"
    ELSE /\ sheet' = r.df
         /\ sheetfile' = "table"
         /\ cyc' = [c EXCEPT !.ref_date = r.ret, !.processed = Append(@, Val(r.ret)),
                             !.steps = Append(@, "merge")
                                         \o (IF wrote THEN <<"persist">> ELSE << >>)]
         /\ pc' = "notify"

\* main.py run_consulta lines 271-278: the two fetches, then update_sheet
RunConsulta(send) ==
    /\ pc = "idle"
    /\ runs < MaxRuns
    /\ runs' = runs + 1
    /\ \/ /\ cyc' = [Failing(Started("run_consulta", send), "source unavailable", TRUE)
                        EXCEPT !.fetch_failed = TRUE, !.steps = <<"fetch">>]
          /\ pc' = "heartbeat"
          /\ sheet' = sheet
          /\ sheetfile' = sheetfile
       \/ \E b_date \in ObsDates, d_date \in ObsDates,
             b_val \in BrentValues, d_gal \in DieselGalValues :
             AfterMerge([Started("run_consulta", send) EXCEPT
                            !.steps = <<"fetch">>,
                            !.queue = <<Obs(b_date, b_val, d_date, diesel_bbl_of(d_gal))>>],
                        ReadThen(read_excel(sheetfile, sheet),
                                 update_sheet(sheetfile, read_excel(sheetfile, sheet).df,
                                              b_date, b_val, d_date, diesel_bbl_of(d_gal),
                                              EMAIL_DAY)),
                        TRUE,
                        update_sheet_writes(read_excel(sheetfile, sheet).df, b_date, d_date,
                                            EMAIL_DAY),
                        sheetfile)
    /\ UNCHANGED <<today, config, hbfile, hbw, gui>>

\* main_daily.py __main__ lines 251-258: the two fetches, then
\* update_sheet_with_backfill
RunDaily ==
    /\ pc = "idle"
    /\ runs < MaxRuns
    /\ runs' = runs + 1
    /\ \/ /\ cyc' = [Failing(Started("main_daily", TRUE), "source unavailable", FALSE)
                        EXCEPT !.fetch_failed = TRUE, !.steps = <<"fetch">>]
          /\ pc' = "heartbeat"
          /\ sheet' = sheet
          /\ sheetfile' = sheetfile
          /\ today' = today
       \/ \E b_date \in ObsDates, d_date \in ObsDates,
             b_val \in BrentValues, d_gal \in DieselGalValues,
             clock \in ClockReadings(today) :
             /\ AfterMerge([Started("main_daily", TRUE) EXCEPT
                               !.steps = <<"fetch">>,
                               !.queue = <<Obs(b_date, b_val, d_date, diesel_bbl_of(d_gal))>>],
                           ReadThen(read_excel(sheetfile, sheet),
                                    update_sheet_with_backfill(
                                        read_excel(sheetfile, sheet).df, b_date, b_val,
                                        d_date, diesel_bbl_of(d_gal), today, clock,
                                        EMAIL_DAY, USE_EXECUTION_DAY_FOR_EMAIL)),
                           FALSE, TRUE,
                           IF read_excel(sheetfile, sheet).raised
                           THEN sheetfile ELSE _ensure_parent_dir(sheetfile))
             /\ today' = clock[MaxDay + 1]
    /\ UNCHANGED <<config, hbfile, hbw, gui>>

\* main.py run_backfill_range lines 305-312: the two range fetches and
\* common_dates
RunBackfillRange(start_date, end_date, send) ==
    /\ pc = "idle"
    /\ start_date <= end_date
    /\ end_date \in ObsDates
    /\ end_date - start_date \in ObsLags
    /\ \/ /\ cyc' = [Failing(Started("run_backfill_range", send), "source unavailable", TRUE)
                        EXCEPT !.fetch_failed = TRUE, !.steps = <<"fetch">>,
                               !.range = <<start_date, end_date>>]
          /\ pc' = "heartbeat"
          /\ runs < MaxRuns
          /\ runs' = runs + 1
       \/ \E Sb \in (SUBSET (start_date..end_date)) \ {{}},
             Sd \in (SUBSET (start_date..end_date)) \ {{}} :
            \E brent_hist \in [Sb -> BrentValues], diesel_gal \in [Sd -> DieselGalValues] :
               LET common_dates == sorted(Sb \cap Sd)
               IN  IF common_dates = << >>
                   THEN /\ cyc' = [Failing(Started("run_backfill_range", send),
                                           "no common dates", TRUE)
                                     EXCEPT !.steps = <<"fetch">>,
                                            !.range = <<start_date, end_date>>]
                        /\ pc' = "heartbeat"
                        /\ runs < MaxRuns
                        /\ runs' = runs + 1
                   ELSE /\ runs + Len(common_dates) <= MaxRuns
                        /\ runs' = runs + Len(common_dates)
                        /\ cyc' = [Started("run_backfill_range", send) EXCEPT
                                     !.range = <<start_date, end_date>>,
                                     !.steps = <<"fetch">>,
                                     !.queue = [i \in 1..Len(common_dates) |->
                                        Obs(common_dates[i], brent_hist[common_dates[i]],
                                            common_dates[i],
                                            diesel_bbl_of(diesel_gal[common_dates[i]]))]]
                        /\ pc' = "merge"
    /\ UNCHANGED <<today, config, sheet, sheetfile, hbfile, hbw, gui>>

\* run_backfill_range lines 313-315: update_sheet for the next common date
RangeMerge ==
    /\ pc = "merge"
    /\ LET o == cyc.queue[1]
           t == read_excel(sheetfile, sheet)
       IN  AfterMerge(cyc, ReadThen(t, update_sheet(sheetfile, t.df, o.b_date, o.b_val,
                                                    o.d_date, o.d_val, EMAIL_DAY)), TRUE,
                      update_sheet_writes(t.df, o.b_date, o.d_date, EMAIL_DAY),
                      sheetfile)
    /\ UNCHANGED <<today, config, hbfile, hbw, gui, runs>>

---------------------------------------------------------------------------
(* Notification *)

\* the condition under which the run-cycle calls send_weekly_email
NotifyDue ==
    IF cyc.mode = "main_daily"
    THEN _should_send_email(Val(cyc.ref_date), today, EMAIL_DAY, USE_EXECUTION_DAY_FOR_EMAIL)
    ELSE cyc.send_email_if_day /\ _is_email_day(Val(cyc.ref_date), EMAIL_DAY)

\* run_consulta lines 281-290, main_daily.py lines 261-270
NotifySingle ==
    /\ pc = "notify"
    /\ cyc.mode \in {"run_consulta", "main_daily"}
    /\ IF NotifyDue
       THEN \/ cyc' = [cyc EXCEPT !.hb_success = TRUE, !.steps = Append(@, "notify")]
            \/ cyc' = [Failing(cyc, "smtp", FALSE) EXCEPT !.notify_failed = TRUE,
                                                          !.steps = Append(@, "notify")]
       ELSE cyc' = [cyc EXCEPT !.hb_success = TRUE]
    /\ pc' = "heartbeat"
    /\ UNCHANGED <<today, config, sheet, sheetfile, hbfile, hbw, gui, runs>>

\* run_backfill_range lines 317-323: the rest of one loop iteration
NotifyRange ==
    /\ pc = "notify"
    /\ cyc.mode = "run_backfill_range"
    /\ \E failed \in (IF NotifyDue THEN BOOLEAN ELSE {FALSE}) :
          cyc' = [cyc EXCEPT !.queue = Tail(@),
                             !.notify_failed = @ \/ failed,
                             !.hb_success = TRUE,
                             !.steps = IF NotifyDue THEN Append(@, "notify") ELSE @]
    /\ pc' = IF Len(cyc.queue) > 1 THEN "merge" ELSE "heartbeat"
    /\ UNCHANGED <<today, config, sheet, sheetfile, hbfile, hbw, gui, runs>>

---------------------------------------------------------------------------
(* _write_heartbeat *)

\* the modes whose heartbeat writer is the one of main_daily.py
DailyWriters == {"main_daily", "main_daily._write_heartbeat"}

\* the calendar date of now_local, given that of date.today().  main.py
\* takes both from one reading of the clock in the local zone (lines
\* 179-180).  main_daily.py reads now_local in the fixed zone UTC-3 (line
\* 140) and today_str with date.today() in the zone of the process (line
\* 141): the two dates are equal, or a day apart on either side
now_local_days(mode) ==
    IF mode \in DailyWriters THEN {today - 1, today, today + 1} ELSE {today}

\* lines 177-200: read the record, build the new one, open(HEARTBEAT_PATH, "w")
HbOpen ==
    /\ pc = "heartbeat"
    /\ \E now_local \in now_local_days(cyc.mode) :
          LET hb == read_heartbeat(hbfile)
          IN  hbw' = [state |-> "dump", success |-> cyc.hb_success,
                      now_local |-> Some(now_local), today_str |-> Some(today),
                      error_msg |-> cyc.hb_msg, old |-> hb,
                      new |-> heartbeat_doc(hb, cyc.hb_success, cyc.hb_msg, now_local, today)]
    /\ hbfile' = Truncated
    /\ pc' = "hb_dump"
    /\ UNCHANGED <<today, config, sheet, sheetfile, cyc, gui, runs>>

\* json.dump, after which an error of the notifier is raised again out of
\* its except branch into the outer one, which writes the heartbeat too
HbDumpRaiseOn ==
    /\ pc = "hb_dump"
    /\ hbfile' = Written(hbw.new)
    /\ hbw' = IdleFrame
    /\ cyc' = [cyc EXCEPT !.queue = << >>,
                          !.hb_writes = @ + 1,
                          !.steps = Append(@, "heartbeat"),
                          !.result = IF cyc.reraise THEN "raised" ELSE "returned"]
    /\ pc' = IF cyc.notify_failed /\ cyc.hb_writes = 0 THEN "heartbeat" ELSE "end"
    /\ UNCHANGED <<today, config, sheet, sheetfile, gui, runs>>

\* line 201: json.dump; the run-cycle then returns, or raises again
HbDump ==
    /\ pc = "hb_dump"
    /\ hbfile' = Written(hbw.new)
    /\ hbw' = IdleFrame
    /\ cyc' = [cyc EXCEPT !.queue = << >>,
                          !.hb_writes = @ + 1,
                          !.steps = Append(@, "heartbeat"),
                          !.result = IF cyc.reraise THEN "raised" ELSE "returned"]
    /\ pc' = "end"
    /\ UNCHANGED <<today, config, sheet, sheetfile, gui, runs>>

\* the caller has the outcome of the run-cycle; its frame is gone
Return ==
    /\ pc = "end"
    /\ cyc' = NoCycle
    /\ pc' = "idle"
    /\ UNCHANGED <<today, config, sheet, sheetfile, hbfile, hbw, gui, runs>>

\* a direct call of _write_heartbeat(success, error_msg)
MsgArgs == {NoMsg} \cup {StrMsg(t) : t \in ErrorTexts} \cup {ExcMsg(t) : t \in ErrorTexts}

HbModules == {"_write_heartbeat", "main_daily._write_heartbeat"}

WriteHeartbeatCall(module, success, error_msg) ==
    /\ pc = "idle"
    /\ cyc' = [NoCycle EXCEPT !.mode = module, !.hb_success = success,
                              !.hb_msg = error_msg, !.result = "running"]
    /\ pc' = "heartbeat"
    /\ UNCHANGED <<today, config, sheet, sheetfile, hbfile, hbw, gui, runs>>

---------------------------------------------------------------------------
(* gui.py *)

\* App.refresh_status, polled every REFRESH_MS
GuiRefresh ==
    /\ gui' = status_from_heartbeat(read_heartbeat(hbfile))
    /\ UNCHANGED <<today, config, sheet, sheetfile, hbfile, hbw, pc, cyc, runs>>

---------------------------------------------------------------------------
(* Specifications *)

Next ==
    \/ Tick
    \/ \E send \in BOOLEAN : RunConsulta(send)
    \/ RunDaily
    \/ \E start_date \in Days, end_date \in Days, send \in BOOLEAN :
          RunBackfillRange(start_date, end_date, send)
    \/ RangeMerge
    \/ NotifySingle
    \/ NotifyRange
    \/ HbOpen
    \/ HbDump
    \/ Return

Spec == Init /\ [][Next]_vars

\* only the daily catch-up entry point runs
NextDaily ==
    \/ Tick
    \/ RunDaily
    \/ NotifySingle
    \/ HbOpen
    \/ HbDump
    \/ Return

SpecDaily == Init /\ [][NextDaily]_vars

\* the heartbeat store under direct calls
NextHeartbeat ==
    \/ Tick
    \/ \E module \in HbModules, success \in BOOLEAN, error_msg \in MsgArgs :
          WriteHeartbeatCall(module, success, error_msg)
    \/ HbOpen
    \/ HbDump
    \/ Return
    \/ GuiRefresh

SpecHeartbeat == Init /\ [][NextHeartbeat]_vars

\* the same merge operation called again with the same arguments,
\* starting from an empty ledger
InitTwice ==
    /\ today \in Days
    /\ EMAIL_DAY \in EmailDayValues
    /\ USE_EXECUTION_DAY_FOR_EMAIL \in BOOLEAN
    /\ sheet = << >>
    /\ sheetfile = "absent"
    /\ hbfile = NoFile
    /\ hbw = IdleFrame
    /\ pc = "call"
    /\ \E mode \in {"update_sheet", "update_sheet_with_backfill"},
          b_date \in Days, d_date \in Days,
          b_val \in BrentValues, d_gal \in DieselGalValues :
          cyc = [Started(mode, FALSE) EXCEPT
                    !.queue = <<Obs(b_date, b_val, d_date, diesel_bbl_of(d_gal))>>]
    /\ gui = "unset"
    /\ runs = 0

MergeCall ==
    /\ pc = "call"
    /\ Len(cyc.processed) < 2
    /\ \E clock \in ClockReadings(today) :
       /\ today' = IF cyc.mode = "update_sheet_with_backfill"
                   THEN clock[MaxDay + 1] ELSE today
       /\ LET o == cyc.queue[1]
              t == read_excel(sheetfile, sheet)
              r == ReadThen(t,
                     IF cyc.mode = "update_sheet_with_backfill"
                     THEN update_sheet_with_backfill(t.df, o.b_date, o.b_val, o.d_date, o.d_val,
                                                     today, clock, EMAIL_DAY,
                                                     USE_EXECUTION_DAY_FOR_EMAIL)
                     ELSE update_sheet(sheetfile, t.df, o.b_date, o.b_val, o.d_date, o.d_val,
                                       EMAIL_DAY))
          IN  IF r.raised
              THEN /\ sheet' = r.df
                   /\ sheetfile' = IF cyc.mode = "update_sheet_with_backfill" /\ ~t.raised
                                   THEN _ensure_parent_dir(sheetfile) ELSE sheetfile
                   /\ cyc' = [cyc EXCEPT !.merge_failed = TRUE, !.result = "raised"]
                   /\ pc' = "end"
              ELSE /\ sheet' = r.df
                   /\ sheetfile' = "table"
                   /\ cyc' = [cyc EXCEPT !.ref_date = r.ret, !.processed = Append(@, Val(r.ret))]
                   /\ pc' = "call"
    /\ UNCHANGED <<config, hbfile, hbw, gui, runs>>

SpecTwice == InitTwice /\ [][MergeCall]_vars

---------------------------------------------------------------------------
(* Claims *)

RowIndexes == 1..Len(sheet)

Min2(a, b) == IF a <= b THEN a ELSE b

\* the heartbeat record a reader gets now
HbNow == read_heartbeat(hbfile)

\* C1: after any sequence of daily catch-up run-cycles the persisted ledger
\* is contiguous: every calendar date between the date of its first row and
\* the date of its last row has a row.
C1_Contiguous ==
    Len(sheet) > 0 =>
        \A d \in Min2(sheet[1].Data, sheet[Len(sheet)].Data)
                    .. max2(sheet[1].Data, sheet[Len(sheet)].Data) :
            d \in existing_dates(sheet)

\* C2: after any sequence of merge operations no two rows of the ledger
\* have the same date.
C2_UniqueDates ==
    \A i \in RowIndexes, j \in RowIndexes : i # j => sheet[i].Data # sheet[j].Data

\* C2 witness: the run-cycle before this one succeeded, so it merged, and
\* this run-cycle's merge returned without adding a second row: it was
\* called for a date the ledger already held.
C2_Witness ==
    /\ pc = "notify"
    /\ runs = 2
    /\ Len(sheet) = 1
    /\ ~IsNA(get(HbNow, "last_success", NA))
    /\ IsNA(get(HbNow, "last_error", NA))

\* the reference date of the call under SpecTwice
TwiceRef == max2(cyc.queue[1].b_date, cyc.queue[1].d_date)

RowsFor(df, d) == {i \in 1..Len(df) : df[i].Data = d}

\* a second call that ends on the run day of the first: the clock shows
\* at its end the day the first call began on (the day that call of
\* update_sheet_with_backfill read at line 205 and returned; update_sheet
\* reads no clock)
SameRunDay ==
    /\ Len(cyc.processed) = 1
    /\ today' = today
    /\ cyc.mode = "update_sheet_with_backfill" => cyc.processed[1] = today

\* C3: the merge operation called twice in a row with identical arguments
\* on the same run day, starting from an empty ledger, leaves exactly one
\* row for the reference date, and the second call changes nothing.
C3_Idempotent ==
    [][(pc = "call" /\ pc' = "call") =>
          /\ Cardinality(RowsFor(sheet', TwiceRef)) = 1
          /\ SameRunDay => sheet' = sheet]_vars

\* C3 witness: both calls of update_sheet_with_backfill have returned on
\* the day the first began on, and the row of the reference date is a
\* reporting-day row (the second call went through the refresh).
C3_Witness ==
    /\ pc = "call"
    /\ cyc.processed = <<today, today>>
    /\ Len(sheet) > 1
    /\ \E i \in RowIndexes : sheet[i].Data = TwiceRef /\ sheet[i].EmailFlag = 1

\* C4: a daily run-cycle whose predecessor succeeded N + 1 days earlier
\* (N days without a run in between) adds exactly N + 1 rows, on the
\* consecutive dates after the previous run day up to the run day, each
\* with the prices of the new observation.
C4_GapFree ==
    [][(/\ pc = "idle"
        /\ pc' = "notify"
        /\ cyc'.mode = "main_daily"
        /\ ~IsNA(get(HbNow, "last_success", NA))
        /\ IsNA(get(HbNow, "last_error", NA))
        /\ Val(get(HbNow, "last_success", NA)) < today)
       => LET p == Val(get(HbNow, "last_success", NA))
              o == cyc'.queue[1]
          IN  /\ Len(sheet') = Len(sheet) + (today - p)
              /\ \A k \in 1..(today - p) :
                    /\ sheet'[Len(sheet) + k].Data = p + k
                    /\ sheet'[Len(sheet) + k].PetroleoBarril = o.b_val
                    /\ sheet'[Len(sheet) + k].DieselBarril = o.d_val]_vars

SpreadPresent(row) == ~IsNA(row.SpreadAbs) /\ ~IsNA(row.SpreadPct)
SpreadAbsent(row) == IsNA(row.SpreadAbs) /\ IsNA(row.SpreadPct)

\* C9: in every persisted ledger, for every row, spread_abs and spread_pct
\* are present if and only if the row's E-mail Flag is 1.
C9_SpreadGating ==
    \A i \in RowIndexes :
        IF sheet[i].EmailFlag = 1 THEN SpreadPresent(sheet[i]) ELSE SpreadAbsent(sheet[i])

\* C9 witness: a ledger with a row that is not flagged and a flagged row
\* whose spread was set again by a later merge (it is not the spread of
\* the row's own prices).
C9_Witness ==
    /\ \E i \in RowIndexes : sheet[i].EmailFlag = 0 /\ SpreadAbsent(sheet[i])
    /\ \E i \in RowIndexes :
          /\ sheet[i].EmailFlag = 1
          /\ sheet[i].SpreadAbs # Some(sheet[i].DieselBarril - sheet[i].PetroleoBarril)

\* C5: from an empty heartbeat store, after any sequence of
\* _write_heartbeat calls on non-decreasing dates, the derived status is
\* "Em Operacao" exactly when the most recent call was a success (and the
\* error message is then empty) and "Fora de Operacao" exactly when it
\* was a failure.
C5_StatusFollowsLastCall ==
    (pc = "end" /\ cyc.mode \in HbModules) =>
        IF cyc.hb_success
        THEN /\ status_from_heartbeat(HbNow) = "Em Operacao"
             /\ get(HbNow, "last_error_msg", "") = ""
        ELSE status_from_heartbeat(HbNow) = "Fora de Operacao"

\* C5 witness: a failure has just been recorded on the very day of an
\* earlier recorded success.
C5_Witness ==
    /\ pc = "end"
    /\ cyc.mode = "_write_heartbeat"
    /\ ~cyc.hb_success
    /\ get(HbNow, "last_success", NA) = Some(today)
    /\ get(HbNow, "last_error", NA) = Some(today)

\* C6: while a _write_heartbeat call is replacing an existing record, a
\* reader of the heartbeat file gets the complete previous record or the
\* complete new record.
C6_AtomicReplace ==
    hbw.state = "dump" => (HbNow = hbw.old \/ HbNow = hbw.new)

\* C7: in every run-cycle variant, the notification step leaves the ledger
\* as the merge wrote it, and a run-cycle in which the notifier failed ends
\* with the heartbeat recording a failure, dated the day its write began,
\* with the error message.
C7_NotifyFailure ==
    [][/\ (pc = "notify" => sheet' = sheet)
       /\ (pc = "hb_dump" /\ pc' = "end" /\ cyc'.notify_failed) =>
             LET hb == read_heartbeat(hbfile')
             IN  /\ get(hb, "last_error", NA) = hbw.today_str
                 /\ get(hb, "last_error_msg", "") = "smtp"
                 /\ status_from_heartbeat(hb) = "Fora de Operacao"]_vars

\* C8: a run-cycle in which a fetch fails writes nothing to the ledger,
\* ends with the heartbeat recording a failure dated the day its write
\* began, and raises the error to its caller.
C8_FetchFailure ==
    [][/\ (cyc'.fetch_failed => sheet' = sheet)
       /\ (pc = "hb_dump" /\ pc' = "end" /\ cyc'.fetch_failed) =>
             /\ get(read_heartbeat(hbfile'), "last_error", NA) = hbw.today_str
             /\ status_from_heartbeat(read_heartbeat(hbfile')) = "Fora de Operacao"
             /\ cyc'.result = "raised"]_vars

\* the effect of a _write_heartbeat(success=False, error_msg) call on the
\* record, but for the message stored
FailureFrame(new) ==
    /\ get(new, "last_run", NA) = hbw.now_local
    /\ ~IsNA(hbw.now_local)
    /\ get(new, "last_error", NA) = hbw.today_str
    /\ ~IsNA(hbw.today_str)
    /\ Val(hbw.today_str) <= today
    /\ ("last_success" \in DOMAIN new) = ("last_success" \in DOMAIN hbw.old)
    /\ get(new, "last_success", NA) = get(hbw.old, "last_success", NA)

\* C10 as stated: a failing _write_heartbeat call sets last_run to the
\* date of now_local and last_error to today_str, both read when the call
\* began, stores the given message, and leaves last_success as it was.
C10_RecordFailure ==
    [][(pc = "hb_dump" /\ pc' = "end" /\ ~hbw.success) =>
          /\ FailureFrame(read_heartbeat(hbfile'))
          /\ get(read_heartbeat(hbfile'), "last_error_msg", "") = hbw.error_msg.text]_vars

\* C10 amended: a failing _write_heartbeat call sets last_run to the
\* date of now_local and last_error to today_str, both read when the call
\* began, stores the text of the given message
\* when the message is truthy and "Erro nao especificado" when it is None
\* or empty, and leaves last_success as it was.
C10_RecordFailureDefault ==
    [][(pc = "hb_dump" /\ pc' = "end" /\ ~hbw.success) =>
          /\ FailureFrame(read_heartbeat(hbfile'))
          /\ get(read_heartbeat(hbfile'), "last_error_msg", "") =
                (IF Truthy(hbw.error_msg) THEN hbw.error_msg.text
                 ELSE "Erro nao especificado")]_vars

\* C10 witness: a failure recorded without a message, on a later day than
\* the success the record still carries.
C10_Witness ==
    /\ pc = "end"
    /\ ~cyc.hb_success
    /\ ~Truthy(cyc.hb_msg)
    /\ ~IsNA(get(HbNow, "last_success", NA))
    /\ StrLess(get(HbNow, "last_success", NA), get(HbNow, "last_error", NA))
    /\ get(HbNow, "last_error_msg", "") = "Erro nao especificado"

\* C11: a succeeding _write_heartbeat call, from any prior record, sets
\* last_run to the date of now_local and last_success to today_str, both
\* read when the call began, and leaves last_error and last_error_msg
\* empty, so that the error list shown is empty.
C11_RecordSuccess ==
    [][(pc = "hb_dump" /\ pc' = "end" /\ hbw.success) =>
          LET new == read_heartbeat(hbfile')
          IN  /\ get(new, "last_run", NA) = hbw.now_local
              /\ ~IsNA(hbw.now_local)
              /\ get(new, "last_success", NA) = hbw.today_str
              /\ ~IsNA(hbw.today_str) /\ Val(hbw.today_str) <= today
              /\ "last_error" \in DOMAIN new /\ IsNA(new["last_error"])
              /\ "last_error_msg" \in DOMAIN new /\ new["last_error_msg"] = ""
              /\ format_error_list(new) = << >>]_vars

\* C11 witness: a success has just been recorded over a record of a
\* failure (the status last displayed was still the failure).
C11_Witness ==
    /\ pc = "end"
    /\ cyc.hb_success
    /\ gui = "Fora de Operacao"
    /\ status_from_heartbeat(HbNow) = "Em Operacao"
    /\ format_error_list(HbNow) = << >>

---------------------------------------------------------------------------
(* status_from_heartbeat over arbitrary heartbeat records *)

\* the values a date key of a record may hold: "" (NA) or a date
DateCells == {NA} \cup {Some(d) : d \in Days}

\* a key the record does not hold
AbsentDate == <<-1>>
AbsentText == "(absent)"

put_if(hb, key, value, absent) == IF value = absent THEN hb ELSE put(hb, key, value)

\* every record over the keys last_success, last_error, last_error_msg,
\* each key present or not
HbDocs ==
    {put_if(put_if(put_if(EmptyDoc, "last_success", s, AbsentDate),
                   "last_error", e, AbsentDate),
            "last_error_msg", m, AbsentText) :
        s \in DateCells \cup {AbsentDate},
        e \in DateCells \cup {AbsentDate},
        m \in ErrorTexts \cup {AbsentText}}

\* the GUI started on an arbitrary heartbeat file
InitStatus ==
    /\ today = 0
    /\ EMAIL_DAY \in EmailDayValues
    /\ USE_EXECUTION_DAY_FOR_EMAIL \in BOOLEAN
    /\ sheet = << >>
    /\ sheetfile = "absent"
    /\ hbfile \in {Written(hb) : hb \in HbDocs}
    /\ hbw = IdleFrame
    /\ pc = "idle"
    /\ cyc = NoCycle
    /\ gui = "unset"
    /\ runs = 0

SpecStatus == InitStatus /\ [][GuiRefresh]_vars

Present(hb, key) == ~IsNA(get(hb, key, NA))

\* C12: for every heartbeat record the status shown is "Em Operacao" iff
\* last_success is present and last_error is absent or earlier,
\* "Fora de Operacao" iff last_error is present and last_success is absent
\* or not later, and "Indeterminado" iff neither is present; exactly one
\* of the three conditions holds of every record.
C12_StatusPartition ==
    gui # "unset" =>
        LET hb == HbNow
            s == Present(hb, "last_success")
            e == Present(hb, "last_error")
            operational == s /\ (~e \/ Val(hb["last_error"]) < Val(hb["last_success"]))
            degraded == e /\ (~s \/ Val(hb["last_error"]) >= Val(hb["last_success"]))
            unknown == ~s /\ ~e
        IN  /\ (gui = "Em Operacao") <=> operational
            /\ (gui = "Fora de Operacao") <=> degraded
            /\ (gui = "Indeterminado") <=> unknown
            /\ gui \in {"Em Operacao", "Fora de Operacao", "Indeterminado"}
            /\ ~(operational /\ degraded) /\ ~(operational /\ unknown) /\ ~(degraded /\ unknown)
            /\ operational \/ degraded \/ unknown

\* C12 witness: a record whose error is older than its success (a record
\* no writer of this program produces) is shown as in operation.
C12_Witness ==
    /\ gui = "Em Operacao"
    /\ Present(HbNow, "last_success")
    /\ Present(HbNow, "last_error")
    /\ Val(HbNow["last_error"]) < Val(HbNow["last_success"])

\* the outcome of a finished run-cycle
Outcome ==
    IF cyc.fetch_failed THEN "fetch failure"
    ELSE IF cyc.merge_failed THEN "merge failure"
    ELSE IF cyc.notify_failed THEN "notify failure"
    ELSE IF cyc.hb_success THEN "success" ELSE "other failure"

\* C13: a run-cycle of any of the three entry points writes the heartbeat
\* file once on each of its outcomes: no write before its heartbeat step,
\* one when it ends, and the file then holds the one record of that write.
C13_OneHeartbeatWrite ==
    /\ (pc \in {"merge", "notify", "heartbeat", "hb_dump"} => cyc.hb_writes = 0)
    /\ (pc = "end" =>
          /\ cyc.hb_writes = 1
          /\ hbfile.exists /\ hbfile.complete
          /\ ~IsNA(get(HbNow, "last_run", NA))
          /\ DOMAIN HbNow \subseteq {"last_run", "last_success", "last_error", "last_error_msg"})

\* C13 witness: a range run-cycle whose notifier failed has ended with
\* its one heartbeat write.
C13_Witness ==
    /\ pc = "end"
    /\ cyc.mode = "run_backfill_range"
    /\ Outcome = "notify failure"
    /\ cyc.hb_writes = 1

\* C14: a run-cycle whose merge raises leaves the persisted ledger as it
\* was before the merge, and it stays so for the rest of the run-cycle.
C14_FailedMergeLeavesLedger ==
    [][/\ (cyc'.merge_failed /\ ~cyc.merge_failed) => sheet' = sheet
       /\ (cyc.merge_failed /\ pc # "end") => sheet' = sheet]_vars

\* C14 witness: a daily merge has raised in its backfill loop (division by
\* a Brent price of 0 on the reporting day), after the row of a reference
\* date that is not in the persisted ledger had been appended in memory.
C14_Witness ==
    /\ pc = "heartbeat"
    /\ cyc.mode = "main_daily"
    /\ cyc.merge_failed
    /\ Len(sheet) > 0
    /\ LET ref_date == max2(cyc.queue[1].b_date, cyc.queue[1].d_date)
       IN  /\ ref_date \notin existing_dates(sheet)
           /\ ~_should_send_email(ref_date, today, EMAIL_DAY, USE_EXECUTION_DAY_FOR_EMAIL)

\* C15: a successful daily merge on a ledger that has rows leaves, for
\* every calendar date after the ledger's previous last date up to the
\* run day, exactly one row, carrying the prices of the observation merged.
C15_BackfillToToday ==
    [][(/\ pc = "idle"
        /\ pc' = "notify"
        /\ cyc'.mode = "main_daily"
        /\ Len(sheet) > 0)
       => LET o == cyc'.queue[1]
          IN  \A d \in (MaxOf(existing_dates(sheet)) + 1)..today :
                 /\ Cardinality(RowsFor(sheet', d)) = 1
                 /\ \A i \in RowsFor(sheet', d) :
                       /\ sheet'[i].PetroleoBarril = o.b_val
                       /\ sheet'[i].DieselBarril = o.d_val]_vars

\* C16: every successful merge, of update_sheet and of
\* update_sheet_with_backfill, leaves a row keyed by the later of the two
\* observation dates and returns that date to its caller.
C16_ReturnsReferenceDate ==
    [][(pc \in {"idle", "merge"} /\ pc' = "notify")
       => LET o == cyc'.queue[1]
              ref_date == max2(o.b_date, o.d_date)
          IN  /\ Cardinality(RowsFor(sheet', ref_date)) = 1
              /\ cyc'.ref_date = Some(ref_date)]_vars

\* C17: no step of any run-cycle deletes a row of the persisted ledger:
\* every row keeps its position and date, and the set of dates only grows.
C17_NoRowDeleted ==
    [][/\ Len(sheet') >= Len(sheet)
       /\ \A i \in RowIndexes : sheet'[i].Data = sheet[i].Data
       /\ existing_dates(sheet) \subseteq existing_dates(sheet')]_vars

\* C17 witness: a ledger of three rows or more that two merges have
\* written, the second of them a daily merge with its backfill.
C17_Witness ==
    /\ pc = "notify"
    /\ cyc.mode = "main_daily"
    /\ runs = 2
    /\ Len(sheet) >= 3

\* C18: 2.50 USD/gal is collected as 105.00 USD/bbl, and an update_sheet
\* merge of Brent 80.00 with that diesel price, both observations of one
\* date that is the reporting weekday, leaves the row of that date flagged
\* with a spread of 25.00 USD and a relative spread of 0.3125; a row it
\* appends carries the two prices.
C18_SpreadExample ==
    [][(/\ pc \in {"idle", "merge"}
        /\ pc' = "notify"
        /\ cyc'.mode \in {"run_consulta", "run_backfill_range"}
        /\ cyc'.queue[1].b_date = cyc'.queue[1].d_date
        /\ cyc'.queue[1].b_val = 8000
        /\ cyc'.queue[1].d_val = diesel_bbl_of(250)
        /\ _is_email_day(cyc'.queue[1].b_date, EMAIL_DAY))
       => /\ diesel_bbl_of(250) = 10500
          /\ \A i \in RowsFor(sheet', cyc'.queue[1].b_date) :
                /\ sheet'[i].EmailFlag = 1
                /\ sheet'[i].SpreadAbs = Some(2500)
                /\ sheet'[i].SpreadPct = Some(3125)
                /\ (Len(sheet') > Len(sheet) =>
                      /\ sheet'[i].PetroleoBarril = 8000
                      /\ sheet'[i].DieselBarril = 10500)]_vars

\* C18 witness: the row of Friday 2024-01-05 (day 2, Friday being the
\* reporting weekday) with Brent 80.00, diesel 105.00, spread 25.00 and
\* relative spread 0.3125.
C18_Witness ==
    /\ DayTarget(EMAIL_DAY) = 4
    /\ cyc.mode = "run_consulta"
    /\ pc = "notify"
    /\ \E i \in RowIndexes :
          /\ sheet[i].Data = 2
          /\ sheet[i].PetroleoBarril = 8000
          /\ sheet[i].DieselBarril = 10500
          /\ sheet[i].EmailFlag = 1
          /\ sheet[i].SpreadAbs = Some(2500)
          /\ sheet[i].SpreadPct = Some(3125)

---------------------------------------------------------------------------
(* The reporting-day rule over every weekday and configured value *)

WeekSpan == 6

Unset == "(unset)"

\* values of the EMAIL_DAY environment variable
EnvEmailDay ==
    {Unset, "", "MON", "TUE", "WED", "THU", "FRI", "SAT", "SUN", "mon", " SAT ", "SEX"}

\* os.getenv(name, default)
getenv(raw, default) == IF raw = Unset THEN default ELSE raw

\* str.strip and str.upper on the values of EnvEmailDay
strip(s) == IF s = " SAT " THEN "SAT" ELSE IF s = " bbl " THEN "bbl" ELSE s
upper(s) == IF s = "mon" THEN "MON" ELSE IF s = "bbl" THEN "BBL" ELSE s

\* EMAIL_DAY = (os.getenv("EMAIL_DAY", "FRI").strip() or "FRI").upper()
EMAIL_DAY_of(raw) ==
    LET s == strip(getenv(raw, "FRI"))
    IN  upper(IF s = "" THEN "FRI" ELSE s)

\* _is_email_day (main.py) or _is_email_day_by_date (main_daily.py) is to
\* be called on a date, the module having been loaded under a value of
\* the environment variable
InitEmailDay ==
    /\ today = 0
    /\ USE_EXECUTION_DAY_FOR_EMAIL \in BOOLEAN
    /\ sheet = << >>
    /\ sheetfile = "absent"
    /\ hbfile = NoFile
    /\ hbw = IdleFrame
    /\ pc = "call"
    /\ \E raw \in EnvEmailDay, date_iso \in 0..WeekSpan,
          mode \in {"_is_email_day", "_is_email_day_by_date"} :
          /\ EMAIL_DAY = EMAIL_DAY_of(raw)
          /\ cyc = [Started(mode, FALSE) EXCEPT
                       !.queue = <<[env |-> raw, date_iso |-> date_iso]>>]
    /\ gui = "unset"
    /\ runs = 0

EmailDayCall ==
    /\ pc = "call"
    /\ cyc.mode \in {"_is_email_day", "_is_email_day_by_date"}
    /\ cyc' = [cyc EXCEPT !.result =
                  IF _is_email_day(cyc.queue[1].date_iso, EMAIL_DAY) THEN "True" ELSE "False"]
    /\ pc' = "end"
    /\ UNCHANGED <<today, config, sheet, sheetfile, hbfile, hbw, gui, runs>>

SpecEmailDay == InitEmailDay /\ [][EmailDayCall]_vars

WeekdaySymbols == <<"MON", "TUE", "WED", "THU", "FRI", "SAT", "SUN">>

\* the weekday (Monday = 0) a configured value stands for: its position
\* among the seven symbols, read without regard to case and surrounding
\* blanks, and Friday when it is unset or none of them
ConfiguredWeekday(raw) ==
    LET s == IF raw = Unset THEN "" ELSE upper(strip(raw))
    IN  IF \E i \in 1..7 : WeekdaySymbols[i] = s
        THEN (CHOOSE i \in 1..7 : WeekdaySymbols[i] = s) - 1
        ELSE 4

\* C19: the reporting-day rule answers True exactly when the weekday of
\* the date is the configured weekday, for every weekday and each of the
\* seven symbols, and as if Friday were configured when the value is
\* unset or is none of the seven symbols.
C19_ReportingDayRule ==
    (pc = "end" /\ cyc.mode \in {"_is_email_day", "_is_email_day_by_date"}) =>
        ((cyc.result = "True") <=>
            (weekday(cyc.queue[1].date_iso) = ConfiguredWeekday(cyc.queue[1].env)))

\* C19 witness: under an unrecognised value the rule has answered True
\* for a Friday.
C19_Witness ==
    /\ pc = "end"
    /\ cyc.mode = "_is_email_day"
    /\ cyc.queue[1].env = "SEX"
    /\ weekday(cyc.queue[1].date_iso) = 4
    /\ cyc.result = "True"

---------------------------------------------------------------------------
(* The run-cycles started on a missing or malformed file at SHEET_PATH *)

\* SHEET_PATH before the first write: no file in its directory, no file
\* and no directory (data/ of the default path is made by nothing but
\* main_daily.py line 202), or a file that is not a workbook
InitSheetFile ==
    /\ today = 0
    /\ EMAIL_DAY \in EmailDayValues
    /\ USE_EXECUTION_DAY_FOR_EMAIL \in BOOLEAN
    /\ sheet = << >>
    /\ sheetfile \in {"absent", "nodir", "malformed"}
    /\ hbfile = NoFile
    /\ hbw = IdleFrame
    /\ pc = "idle"
    /\ cyc = NoCycle
    /\ gui = "unset"
    /\ runs = 0

SpecSheetFile == InitSheetFile /\ [][Next]_vars

\* a step in which a run-cycle has called its merge function
MergeStep == pc \in {"idle", "merge"} /\ (pc' = "notify" \/ cyc'.merge_failed)

\* C20: a merge called while no file exists at SHEET_PATH starts from an
\* empty table and succeeds: it returns to its run-cycle, and the table
\* persisted is made of the rows of this call alone; a merge called on a
\* malformed file raises to the run-cycle that called it, and the file
\* stays as it is, neither replaced by a table nor changed later.
C20_MissingOrMalformedSheet ==
    [][/\ (MergeStep /\ sheetfile \in {"absent", "nodir"}) =>
             /\ pc' = "notify"
             /\ sheetfile' = "table"
             /\ Len(sheet') >= 1
             /\ \A i \in 1..Len(sheet') :
                   sheet'[i].PetroleoBarril = cyc'.queue[1].b_val
       /\ (MergeStep /\ sheetfile = "malformed") =>
             /\ cyc'.merge_failed
             /\ cyc'.hb_msg = ExcMsg("malformed sheet")
             /\ pc' = "heartbeat"
       /\ sheetfile = "malformed" => (sheetfile' = "malformed" /\ sheet' = sheet)]_vars

---------------------------------------------------------------------------
(* collectors.py: get_today_prices_from_env *)

GALLON_PER_BARREL == 42

\* values of the DIESEL_UNIT environment variable
EnvDieselUnit == {Unset, "", "GAL", "BBL", " bbl ", "LITER"}

\* diesel_unit = (os.getenv("DIESEL_UNIT", "GAL").strip().upper() or "GAL")
diesel_unit_of(raw) ==
    LET s == upper(strip(getenv(raw, "GAL")))
    IN  IF s = "" THEN "GAL" ELSE s

\* lines 109-115
diesel_usd_bbl_of(diesel_value, diesel_unit) ==
    IF diesel_unit = "GAL" THEN diesel_value * GALLON_PER_BARREL
    ELSE IF diesel_unit = "BBL" THEN diesel_value
    ELSE diesel_value * GALLON_PER_BARREL

\* the dict returned, or the RuntimeError of lines 91-92
get_today_prices_from_env(a) ==
    IF ~a.keys
    THEN [raised |-> TRUE, err |-> "Verifique .env", date |-> NA,
          brent_usd_bbl |-> 0, diesel_usd_bbl |-> 0]
    ELSE [raised |-> FALSE, err |-> "", date |-> Some(max2(a.b_date, a.d_date)),
          brent_usd_bbl |-> a.b_val,
          diesel_usd_bbl |-> diesel_usd_bbl_of(a.d_val, diesel_unit_of(a.unit))]

InitCollect ==
    /\ today \in Days
    /\ EMAIL_DAY \in EmailDayValues
    /\ USE_EXECUTION_DAY_FOR_EMAIL = TRUE
    /\ sheet = << >>
    /\ sheetfile = "absent"
    /\ hbfile = NoFile
    /\ hbw = IdleFrame
    /\ pc = "call"
    /\ \E keys \in BOOLEAN, unit \in EnvDieselUnit, b_date \in ObsDates, d_date \in ObsDates,
          b_val \in BrentValues, d_val \in DieselGalValues :
          cyc = [Started("get_today_prices_from_env", FALSE) EXCEPT
                    !.queue = <<[keys |-> keys, unit |-> unit, b_date |-> b_date,
                                 b_val |-> b_val, d_date |-> d_date, d_val |-> d_val]>>]
    /\ gui = "unset"
    /\ runs = 0

CollectCall ==
    /\ pc = "call"
    /\ cyc.mode = "get_today_prices_from_env"
    /\ LET r == get_today_prices_from_env(cyc.queue[1])
       IN  cyc' = [cyc EXCEPT !.processed = <<r>>,
                              !.result = IF r.raised THEN "raised" ELSE "returned"]
    /\ pc' = "end"
    /\ UNCHANGED <<today, config, sheet, sheetfile, hbfile, hbw, gui, runs>>

SpecCollect == InitCollect /\ [][CollectCall]_vars

\* the unit a value of DIESEL_UNIT names, read without regard to case and
\* surrounding blanks, GAL when it is unset or empty
NamedUnit(raw) == IF raw \in {Unset, ""} THEN "GAL" ELSE upper(strip(raw))

\* C21: the diesel price returned is the value itself when the unit is
\* BBL and the value times 42 when it is GAL; under any other unit the
\* call raises instead of returning a price.
C21_UnitConversion ==
    (pc = "end" /\ cyc.mode = "get_today_prices_from_env" /\ cyc.queue[1].keys) =>
        LET a == cyc.queue[1]
            r == cyc.processed[1]
        IN  IF NamedUnit(a.unit) = "BBL"
            THEN ~r.raised /\ r.diesel_usd_bbl = a.d_val
            ELSE IF NamedUnit(a.unit) = "GAL"
                 THEN ~r.raised /\ r.diesel_usd_bbl = a.d_val * 42
                 ELSE r.raised

---------------------------------------------------------------------------
(* Merges on a date that has a row *)

\* the observation a merge step was called with and its reference date
StepObs == cyc'.queue[1]
StepRef == max2(StepObs.b_date, StepObs.d_date)

\* a merge step that returned, called for a date the ledger had a row of
ExistingDateMerge ==
    /\ pc \in {"idle", "merge"}
    /\ pc' = "notify"
    /\ date_exists(sheet, StepRef)

\* the cells of a row that _compute_metrics does not fill
NonDerived(row) ==
    <<row.Data, row.PetroleoBarril, row.DieselBarril,
      row.EmailFlag, row.SpreadAbs, row.SpreadPct>>

\* C22: when a merge is called for a reference date that already has a
\* row, no row is added; if that date is not a reporting day (its weekday
\* is not the configured one) the persisted ledger is left exactly as it
\* was; if it is a reporting day, the E-mail Flag and the two spread
\* cells of the row of that date are set from the supplied values, the
\* two prices of that row stay, and the non-derived cells of every other
\* row stay.
C22_ExistingDateFrame ==
    [][ExistingDateMerge =>
         LET n == Len(sheet)
             k == LastIndexOf(sheet, StepRef)
         IN  IF _is_email_day(StepRef, EMAIL_DAY)
             THEN /\ Len(sheet') = n
                  /\ NonDerived(sheet'[k]) =
                        NonDerived([sheet[k] EXCEPT
                           !.EmailFlag = 1,
                           !.SpreadAbs = Some(StepObs.d_val - StepObs.b_val),
                           !.SpreadPct = Some(Ratio(StepObs.d_val, StepObs.b_val))])
                  /\ \A i \in 1..n :
                        i # k => NonDerived(sheet'[i]) = NonDerived(sheet[i])
             ELSE sheet' = sheet]_vars

---------------------------------------------------------------------------
(* Rows appended by the backfill *)

\* C23: after update_sheet_with_backfill on an empty ledger, every row
\* the backfill appended (dated after the reference date) has E-mail
\* Flag 1 if and only if its own date falls on the weekday of EMAIL_DAY.
C23_BackfillRowOwnDate ==
    (cyc.mode = "update_sheet_with_backfill" /\ Len(cyc.processed) >= 1) =>
        \A i \in RowIndexes :
            sheet[i].Data > TwiceRef =>
                (sheet[i].EmailFlag = 1 <=> _is_email_day(sheet[i].Data, EMAIL_DAY))

---------------------------------------------------------------------------
(* Row order *)

\* C24: in every persisted ledger the rows are in ascending date order:
\* each row's date is later than the date of the row before it (so that
\* the change and the rolling means, which _compute_metrics takes over
\* the rows in their order, follow the calendar).
C24_AscendingDates ==
    \A i \in RowIndexes : i > 1 => sheet[i - 1].Data < sheet[i].Data

---------------------------------------------------------------------------
(* Derived columns *)

\* C25: in every persisted ledger the derived columns (Semana Anual, the
\* two Variação columns, the four moving averages) of every row are the
\* values _compute_metrics gives for the complete row set, and computing
\* them again over the result changes nothing.
C25_DerivedColumnsCurrent ==
    /\ sheet = _compute_metrics(sheet)
    /\ _compute_metrics(_compute_metrics(sheet)) = _compute_metrics(sheet)

\* C25 witness: a persisted ledger of three rows or more in which a row
\* has its week and a change relative to the row before.
C25_Witness ==
    /\ pc = "idle"
    /\ Len(sheet) >= 3
    /\ \E i \in RowIndexes :
          /\ ~IsNA(sheet[i].VariacaoDiesel)
          /\ ~IsNA(sheet[i].SemanaAnual)
          /\ Val(sheet[i].VariacaoDiesel) # 0

---------------------------------------------------------------------------
(* _compute_metrics on tables long enough for the moving averages *)

MaxRows == 31

PriceSteps == {0, 7, 100}
PriceStrides == {1, 3}

\* a price column that goes up and down: base + step * ((i * stride) mod 5)
PriceAt(base, step, stride, i) == base + step * ((i * stride) % 5)

\* the table of n rows on consecutive dates that update_sheet holds before
\* it calls _compute_metrics
PriceTable(n, brent_base, diesel_gal, step, stride) ==
    [i \in 1..n |-> NewRow(i - 1, PriceAt(brent_base, step, stride, i),
                           PriceAt(diesel_bbl_of(diesel_gal), step, stride, i + 2), 0)]

InitMetrics ==
    /\ today = 0
    /\ EMAIL_DAY \in EmailDayValues
    /\ USE_EXECUTION_DAY_FOR_EMAIL = TRUE
    /\ sheet = << >>
    /\ sheetfile = "absent"
    /\ hbfile = NoFile
    /\ hbw = IdleFrame
    /\ pc = "call"
    /\ \E n \in 1..MaxRows, brent_base \in BrentValues, diesel_gal \in DieselGalValues,
          step \in PriceSteps, stride \in PriceStrides :
          cyc = [Started("_compute_metrics", FALSE) EXCEPT
                    !.queue = <<[df |-> PriceTable(n, brent_base, diesel_gal, step, stride)]>>]
    /\ gui = "unset"
    /\ runs = 0

MetricsCall ==
    /\ pc = "call"
    /\ cyc.mode = "_compute_metrics"
    /\ cyc' = [cyc EXCEPT !.processed = <<[df |-> _compute_metrics(cyc.queue[1].df)]>>,
                          !.result = "returned"]
    /\ pc' = "end"
    /\ UNCHANGED <<today, config, sheet, sheetfile, hbfile, hbw, gui, runs>>

SpecMetrics == InitMetrics /\ [][MetricsCall]_vars

\* the sum of f over the index set S
RECURSIVE SumOver(_, _)
SumOver(f, S) ==
    IF S = {} THEN 0
    ELSE LET j == CHOOSE x \in S : TRUE IN f[j] + SumOver(f, S \ {j})

\* the cell m is the mean of the prices p at the 0-based rows lo..hi, in
\* whole cents
IsMeanOf(m, p, lo, hi) ==
    /\ ~IsNA(m)
    /\ LET s == SumOver(p, {j + 1 : j \in lo..hi})
           k == hi - lo + 1
       IN  Val(m) * k <= s /\ s < (Val(m) + 1) * k

\* the table given to _compute_metrics and the table it returned
MetricsIn == cyc.queue[1].df
MetricsOut == cyc.processed[1].df

MetricsRan == pc = "end" /\ cyc.mode = "_compute_metrics"

\* C26: for a window k of 7 or 30 rows and every 0-based row index i, the
\* moving average of a price column at row i is undefined when i < k-1
\* and otherwise is the mean of the prices of rows i-k+1..i.
C26_RollingMean ==
    MetricsRan =>
        LET brent == [j \in 1..Len(MetricsIn) |-> MetricsIn[j].PetroleoBarril]
            diesel == [j \in 1..Len(MetricsIn) |-> MetricsIn[j].DieselBarril]
            Holds(m, p, k, i) == IF i < k - 1 THEN IsNA(m) ELSE IsMeanOf(m, p, i - k + 1, i)
        IN  /\ Len(MetricsOut) = Len(MetricsIn)
            /\ \A i \in 0..(Len(MetricsIn) - 1) :
                  /\ Holds(MetricsOut[i + 1].MM7Petroleo, brent, 7, i)
                  /\ Holds(MetricsOut[i + 1].MM30Petroleo, brent, 30, i)
                  /\ Holds(MetricsOut[i + 1].MM7Diesel, diesel, 7, i)
                  /\ Holds(MetricsOut[i + 1].MM30Diesel, diesel, 30, i)

\* C26 witness: a table of 10 rows with changing prices; the weekly
\* average of the Brent column is undefined at rows 0-5 and present from
\* row 6 on, where it is the mean of rows 0-6, and differs at row 7.
C26_Witness ==
    /\ MetricsRan
    /\ Len(MetricsIn) = 10
    /\ \A i \in 0..5 : IsNA(MetricsOut[i + 1].MM7Petroleo)
    /\ IsMeanOf(MetricsOut[7].MM7Petroleo,
                [j \in 1..10 |-> MetricsIn[j].PetroleoBarril], 0, 6)
    /\ MetricsOut[8].MM7Petroleo # MetricsOut[7].MM7Petroleo
    /\ IsNA(MetricsOut[10].MM30Petroleo)

---------------------------------------------------------------------------
(* Order of the steps of a run-cycle *)

StepRank(s) ==
    CASE s = "fetch" -> 1
      [] s = "merge" -> 2
      [] s = "persist" -> 3
      [] s = "notify" -> 4
      [] s = "heartbeat" -> 5

StepsTaken == {cyc.steps[i] : i \in 1..Len(cyc.steps)}

\* C27: in a run-cycle of run_consulta or of main_daily the steps taken
\* occur in the order fetch, merge, persist (after the recomputation),
\* notify, heartbeat: the notifier is invoked only after the ledger was
\* persisted, and after a merge that returned the heartbeat is written
\* only once the notify step is over (the notifier was called and
\* returned or failed, or was found not due).
C27_StepOrder ==
    cyc.mode \in {"run_consulta", "main_daily"} =>
        /\ \A i \in 1..Len(cyc.steps) : \A j \in 1..Len(cyc.steps) :
              i < j => StepRank(cyc.steps[i]) < StepRank(cyc.steps[j])
        /\ "notify" \in StepsTaken => "persist" \in StepsTaken
        /\ pc = "notify" => ("notify" \notin StepsTaken /\ "heartbeat" \notin StepsTaken)
        /\ "heartbeat" \in StepsTaken =>
              /\ pc = "end"
              /\ (~cyc.fetch_failed /\ ~cyc.merge_failed) =>
                    /\ cyc.hb_success \/ cyc.notify_failed
                    /\ cyc.notify_failed => "notify" \in StepsTaken

\* C27 witness: a run-cycle of run_consulta has ended after all five steps.
C27_Witness ==
    /\ pc = "end"
    /\ cyc.mode = "run_consulta"
    /\ cyc.steps = <<"fetch", "merge", "persist", "notify", "heartbeat">>

---------------------------------------------------------------------------
(* The date tested by the reporting-day rule *)

\* the date the configured policy names for an observation of date ref
PolicyDate(ref) == IF USE_EXECUTION_DAY_FOR_EMAIL THEN today ELSE ref

\* C28: in main_daily the flag of a row added for the reference date and
\* the decision to call the notifier both follow the weekday of the date
\* the policy names: the run day under USE_EXECUTION_DAY_FOR_EMAIL, the
\* reference date of the observation otherwise.
C28_PolicyDate ==
    [][/\ (pc = "idle" /\ pc' = "notify" /\ cyc'.mode = "main_daily"
              /\ today' = today /\ ~date_exists(sheet, StepRef)) =>
             \A i \in 1..Len(sheet') :
                 sheet'[i].Data = StepRef =>
                     (sheet'[i].EmailFlag = 1
                          <=> _is_email_day(PolicyDate(StepRef), EMAIL_DAY))
       /\ (pc = "notify" /\ pc' = "heartbeat" /\ cyc.mode = "main_daily") =>
             (cyc'.steps # cyc.steps
                  <=> _is_email_day(PolicyDate(max2(cyc.queue[1].b_date, cyc.queue[1].d_date)),
                                    EMAIL_DAY))]_vars

---------------------------------------------------------------------------
(* run_backfill_range *)

\* C29: when run_backfill_range(start, end) has returned, the list it
\* returned holds every calendar date from start to end once, in
\* ascending order, and every one of these dates has a row in the ledger.
C29_RangeCovered ==
    (pc = "end" /\ cyc.mode = "run_backfill_range" /\ cyc.result = "returned") =>
        LET start_date == cyc.range[1]
            end_date == cyc.range[2]
        IN  /\ cyc.processed = [i \in 1..(end_date - start_date + 1) |-> start_date + i - 1]
            /\ \A d \in start_date..end_date : date_exists(sheet, d)

---------------------------------------------------------------------------
(* Spread and prices of a row *)

\* C30: in every persisted ledger, each row whose spread cells are
\* present has Spread = Diesel - Petróleo and Spread % = Diesel / Petróleo
\* - 1 for the two prices stored in that row.
C30_SpreadOfOwnPrices ==
    \A i \in RowIndexes :
        SpreadPresent(sheet[i]) =>
            /\ sheet[i].SpreadAbs = Some(sheet[i].DieselBarril - sheet[i].PetroleoBarril)
            /\ sheet[i].SpreadPct = Some(Ratio(sheet[i].DieselBarril, sheet[i].PetroleoBarril))

---------------------------------------------------------------------------
(* collectors.py: EIAClient._request *)

MaxRetries == 3

\* self.max_retries and self.backoff_seconds, integers read from MAX_RETRIES
\* and RETRY_BACKOFF_SECONDS
RetryValues == 0..MaxRetries
BackoffValues == {-1, 0, 5}

\* the JSON documents a body may parse to
Payloads == {1, 2}

\* what one requests.get can come to: an exception (exc), or a response
\* with a status code and a body that r.json() parses (Some) or not (NA)
Responses ==
    {[exc |-> TRUE, status |-> 0, body |-> NA]}
        \cup {[exc |-> FALSE, status |-> s, body |-> b] :
                 s \in {200, 500}, b \in {NA} \cup {Some(p) : p \in Payloads}}

RECURSIVE Pow3(_)
Pow3(n) == IF n <= 0 THEN 1 ELSE 3 * Pow3(n - 1)

\* the test of line 28 passing whatever the status code is
status_ok_any(resp) == TRUE

\* line 28: r.status_code == 200
status_ok(resp) == resp.status = 200

\* last_err after an attempt that did not return (lines 30-32)
last_err_of(resp) ==
    IF resp.exc THEN "ConnectionError"
    ELSE IF status_ok(resp) THEN "JSONDecodeError"
    ELSE "HTTP"

GetEvent(resp) ==
    [op |-> "get", exc |-> resp.exc, status |-> resp.status, body |-> resp.body, seconds |-> 0]

SleepEvent(seconds) ==
    [op |-> "sleep", exc |-> FALSE, status |-> 0, body |-> NA, seconds |-> seconds]

RequestResult(raised, err, value) == [raised |-> raised, err |-> err, value |-> value]

InitRequest ==
    /\ today = 0
    /\ EMAIL_DAY \in EmailDayValues
    /\ USE_EXECUTION_DAY_FOR_EMAIL = TRUE
    /\ sheet = << >>
    /\ sheetfile = "absent"
    /\ hbfile = NoFile
    /\ hbw = IdleFrame
    /\ pc = "request"
    /\ \E max_retries \in RetryValues, backoff_seconds \in BackoffValues :
          cyc = [Started("_request", FALSE) EXCEPT
                    !.queue = <<[max_retries |-> max_retries,
                                 backoff_seconds |-> backoff_seconds,
                                 attempt |-> 1, last_err |-> "None"]>>]
    /\ gui = "unset"
    /\ runs = 0

\* one iteration of the for loop, lines 25-33
RequestAttempt ==
    /\ pc = "request"
    /\ cyc.mode = "_request"
    /\ cyc.queue[1].attempt <= cyc.queue[1].max_retries
    /\ \E resp \in Responses :
          LET f == cyc.queue[1]
              seconds == f.backoff_seconds * Pow3(f.attempt - 1)
          IN  IF ~resp.exc /\ status_ok(resp) /\ ~IsNA(resp.body)
              THEN /\ cyc' = [cyc EXCEPT
                                !.steps = Append(@, GetEvent(resp)),
                                !.processed = <<RequestResult(FALSE, "", resp.body)>>,
                                !.result = "returned"]
                   /\ pc' = "end"
              ELSE IF seconds < 0
                   THEN /\ cyc' = [cyc EXCEPT
                                     !.steps = Append(@, GetEvent(resp)),
                                     !.queue = <<[f EXCEPT !.last_err = last_err_of(resp)]>>,
                                     !.processed = <<RequestResult(TRUE, "ValueError", NA)>>,
                                     !.result = "raised"]
                        /\ pc' = "end"
                   ELSE /\ cyc' = [cyc EXCEPT
                                     !.steps = @ \o <<GetEvent(resp), SleepEvent(seconds)>>,
                                     !.queue = <<[f EXCEPT !.last_err = last_err_of(resp),
                                                           !.attempt = @ + 1]>>]
                        /\ pc' = "request"
    /\ UNCHANGED <<today, config, sheet, sheetfile, hbfile, hbw, gui, runs>>

\* line 34: the loop is over
RequestRaise ==
    /\ pc = "request"
    /\ cyc.mode = "_request"
    /\ cyc.queue[1].attempt > cyc.queue[1].max_retries
    /\ cyc' = [cyc EXCEPT !.processed = <<RequestResult(TRUE, cyc.queue[1].last_err, NA)>>,
                          !.result = "raised"]
    /\ pc' = "end"
    /\ UNCHANGED <<today, config, sheet, sheetfile, hbfile, hbw, gui, runs>>

NextRequest == RequestAttempt \/ RequestRaise

\* requests.get has a timeout and time.sleep ends: every step is taken
SpecRequest == InitRequest /\ [][NextRequest]_vars /\ WF_vars(NextRequest)

\* the frame, the log of requests and waits, and the outcome of a call
ReqArgs == cyc.queue[1]
ReqLog == cyc.steps
ReqOut == cyc.processed[1]
ReqGets == {i \in 1..Len(ReqLog) : ReqLog[i].op = "get"}
ReqEnded == pc = "end" /\ cyc.mode = "_request"

\* an attempt answered with status 200; with a body that parses as well
Answered200(e) == ~e.exc /\ e.status = 200
Parsed200(e) == Answered200(e) /\ ~IsNA(e.body)

\* the failure an attempt that did not return leaves behind
FailureOf(e) ==
    IF e.exc THEN "ConnectionError"
    ELSE IF e.status = 200 THEN "JSONDecodeError" ELSE "HTTP"

LastGet == CHOOSE i \in ReqGets : \A j \in ReqGets : j <= i

\* C31 as stated: with a backoff that is not negative, _request makes at
\* most max_retries attempts and ends; the first attempt answered with
\* status 200 is the last thing it does and its payload is returned; when
\* all max_retries attempts fail it raises with the last failure.
C31_First200Returned ==
    /\ [](cyc.mode = "_request" /\ ReqArgs.backoff_seconds >= 0 =>
            /\ Cardinality(ReqGets) <= ReqArgs.max_retries
            /\ \A i \in ReqGets :
                  Answered200(ReqLog[i]) =>
                      /\ i = Len(ReqLog)
                      /\ cyc.result = "returned"
                      /\ ReqOut.value = ReqLog[i].body
            /\ (ReqEnded /\ cyc.result = "returned") => Answered200(ReqLog[Len(ReqLog)])
            /\ (ReqEnded /\ cyc.result = "raised") =>
                  /\ Cardinality(ReqGets) = ReqArgs.max_retries
                  /\ ReqGets # {} => ReqOut.err = FailureOf(ReqLog[LastGet]))
    /\ <>(pc = "end")

\* C31: _request makes at most max_retries attempts and ends.  It returns
\* the payload of the first attempt answered with status 200 and a body
\* that parses, and that attempt is the last thing it does; every attempt
\* before it, a 200 answer with an unparseable body included, is followed
\* by a wait of backoff_seconds * 3^(attempt-1).  When all max_retries
\* attempts fail it raises with the last failure (None when max_retries
\* is 0) unless the backoff is negative, in which case the first failed
\* attempt ends in the ValueError of time.sleep.  No payload of a non-200
\* answer is returned.
C31_RequestTerminates ==
    /\ [](cyc.mode = "_request" =>
            /\ Cardinality(ReqGets) <= ReqArgs.max_retries
            /\ (pc = "end") <=> (cyc.result # "running")
            /\ \A i \in ReqGets :
                  IF Parsed200(ReqLog[i])
                  THEN /\ i = Len(ReqLog)
                       /\ cyc.result = "returned"
                       /\ ReqOut = RequestResult(FALSE, "", ReqLog[i].body)
                  ELSE ReqArgs.backoff_seconds >= 0 =>
                          /\ i < Len(ReqLog)
                          /\ ReqLog[i + 1] =
                                SleepEvent(ReqArgs.backoff_seconds
                                             * Pow3(Cardinality({j \in ReqGets : j < i})))
            /\ (ReqEnded /\ cyc.result = "returned") =>
                  /\ ReqGets # {}
                  /\ Parsed200(ReqLog[Len(ReqLog)])
            /\ (ReqEnded /\ cyc.result = "raised") =>
                  /\ \A i \in ReqGets : ~Parsed200(ReqLog[i])
                  /\ IF ReqArgs.backoff_seconds < 0 /\ ReqArgs.max_retries >= 1
                     THEN /\ Cardinality(ReqGets) = 1
                          /\ ReqOut = RequestResult(TRUE, "ValueError", NA)
                     ELSE /\ Cardinality(ReqGets) = ReqArgs.max_retries
                          /\ ReqOut = RequestResult(TRUE,
                                         IF ReqGets = {} THEN "None"
                                         ELSE FailureOf(ReqLog[LastGet]), NA))
    /\ <>(pc = "end")

\* C31 witness: a call has returned the payload of its third attempt,
\* after an attempt that failed and a wait of 5 seconds, and an attempt
\* answered with status 200 and an unparseable body and a wait of 15.
C31_Witness ==
    /\ ReqEnded
    /\ cyc.result = "returned"
    /\ Len(ReqLog) = 5
    /\ ~Answered200(ReqLog[1])
    /\ ReqLog[2] = SleepEvent(5)
    /\ Answered200(ReqLog[3]) /\ IsNA(ReqLog[3].body)
    /\ ReqLog[4] = SleepEvent(15)
    /\ ReqOut.value = ReqLog[5].body

============================================================================
